---- MODULE Spec2Model ----
(***************************************************************************)
(* A model of mirror-sync (src/src/mirror_sync/cli.py): the upward search  *)
(* for the configuration file, the file listing and its hash map, the      *)
(* merge of the file configuration with the command line, the hash-map     *)
(* diff with its scratch directories, and the push / pull / diff / cmd     *)
(* flows of main() with the subprocesses they start.                       *)
(*                                                                         *)
(* Strings are sequences of tokens: a token is a name or one of the        *)
(* characters the code looks at ("/", ":", ".", " ", the characters of     *)
(* DeepDiff's "root['...']").  A pathlib path is a record                  *)
(* [abs, parts]: whether it starts at "/", and its components, each a      *)
(* string.                                                                 *)
(***************************************************************************)
EXTENDS Integers, Sequences, FiniteSets, TLC

VARIABLES
    pc,        \* position of the running call: "idle", then the call's steps
    fu,        \* the last findup call: its inputs and its result
    ff,        \* the last find_files call: its inputs and its result
    gh,        \* the last get_file_hashes call: its inputs and its result
    mg,        \* the last configuration merge: file dict, CLI dict, result
    sd,        \* the last show_diff call: the two states and what it reported
    env,       \* main's surroundings: cwd, the file system, the remote trees
    args,      \* main's parsed command line
    root,      \* main's project root
    config,    \* main's Config object
    sync_args, \* main's argument list for the transfer tool
    todo,      \* push / cmd: the targets still to be handled
    log,       \* the subprocesses started so far, in order, with their exit codes
    prompts,   \* the answers the operator gave to input(), in order
    out,       \* the messages printed so far that the claims speak of
    scratch,   \* the scratch directories made so far, and what became of them
    exitCode   \* the process's exit code once pc = "done"

vars == <<pc, fu, ff, gh, mg, sd, env, args, root, config, sync_args, todo, log,
          prompts, out, scratch, exitCode>>

----------------------------------------------------------------------------
(* Bounds of the model. *)

MaxDepth == 2      \* depth of the directory trees findup is tried on
MaxCfg == 2        \* directories of such a tree that hold a file of the name
MaxFiles == 3      \* paths of the hash maps handed to show_diff
MaxKeys == 1       \* keys of one dictionary handed to Config.update
MaxTargets == 2    \* targets on one command line

----------------------------------------------------------------------------
(* Strings and pathlib paths. *)

RECURSIVE Split(_, _)
\* str.split(sep): the pieces of s between the occurrences of the token sep
Split(s, sep) ==
    IF \A i \in 1..Len(s) : s[i] # sep
    THEN <<s>>
    ELSE LET i == CHOOSE j \in 1..Len(s) :
                      s[j] = sep /\ \A k \in 1..(j - 1) : s[k] # sep
         IN  <<SubSeq(s, 1, i - 1)>> \o Split(SubSeq(s, i + 1, Len(s)), sep)

RECURSIVE Join(_, _)
\* sep.join(parts)
Join(parts, sep) ==
    IF parts = <<>> THEN <<>>
    ELSE IF Len(parts) = 1 THEN parts[1]
    ELSE parts[1] \o <<sep>> \o Join(Tail(parts), sep)

IsPart(c) == c # <<>> /\ c # <<".">>

\* Path(s): the string is cut at "/", empty and "." components are dropped
PathOf(s) ==
    [abs |-> Len(s) > 0 /\ s[1] = "/",
     parts |-> SelectSeq(Split(s, "/"), IsPart)]

\* str(path)
PathStr(p) ==
    IF p.parts = <<>>
    THEN (IF p.abs THEN <<"/">> ELSE <<".">>)
    ELSE (IF p.abs THEN <<"/">> ELSE <<>>) \o Join(p.parts, "/")

\* path / other
PathJoin(p, q) ==
    IF q.abs THEN q ELSE [abs |-> p.abs, parts |-> p.parts \o q.parts]

\* path.parent (the parent of "/" is "/")
Parent(p) ==
    [abs |-> p.abs,
     parts |-> IF p.parts = <<>> THEN <<>>
               ELSE SubSeq(p.parts, 1, Len(p.parts) - 1)]

IsPrefix(s, t) == Len(s) <= Len(t) /\ SubSeq(t, 1, Len(s)) = s

\* whether path.relative_to(other) returns (it raises ValueError otherwise)
IsRelativeTo(p, other) ==
    p.abs = other.abs /\ IsPrefix(other.parts, p.parts)

\* path.relative_to(other), where it returns
RelativeTo(p, other) ==
    [abs |-> FALSE,
     parts |-> SubSeq(p.parts, Len(other.parts) + 1, Len(p.parts))]

AbsPath(parts) == [abs |-> TRUE, parts |-> parts]

----------------------------------------------------------------------------
(* The file system: fs.regular are the regular files and fs.dirs the        *)
(* directories, each an absolute path given by its components.              *)

CONFIG_NAME == <<".mirrors.yaml">>

\* [p.name for p in path.glob('*') if p.is_file()]
FileNamesIn(path, fs) ==
    {f[Len(f)] : f \in {g \in fs.regular :
                          Len(g) = Len(path.parts) + 1 /\ IsPrefix(path.parts, g)}}

NoPath == [found |-> FALSE, path |-> AbsPath(<<>>)]

FoundPath(p) == [found |-> TRUE, path |-> p]

\* the loop's test: the walk stops, without looking, at the path whose string is "/"
FindupAtEnd(path) == PathStr(path) = <<"/">>

RECURSIVE findup(_, _, _)
\* findup(name, path): NoPath stands for None
findup(name, path, fs) ==
    IF FindupAtEnd(path) THEN NoPath
    ELSE IF name \in FileNamesIn(path, fs) THEN FoundPath(path)
    ELSE findup(name, Parent(path), fs)

----------------------------------------------------------------------------
(* find_files and get_file_hashes.  A tree is a function from the regular   *)
(* files under a directory, each given by its components below that         *)
(* directory, to their contents.  A list argument is a record that says      *)
(* whether the caller left it at None.                                       *)

GIT == <<".git">>

NoList == [none |-> TRUE, list |-> <<>>]

ListOf(items) == [none |-> FALSE, list |-> items]

\* [p.name for p in f.parents]: the name of every directory of the path f as it
\* is spelled, and the empty name of the last parent ("." or "/")
ParentNames(f) == {f.parts[i] : i \in 1..(Len(f.parts) - 1)} \cup {<<>>}

\* Path(target_dir).rglob('*') narrowed to the regular files
RglobFiles(target_dir, tree) ==
    {PathJoin(PathOf(target_dir), [abs |-> FALSE, parts |-> r]) : r \in DOMAIN tree}

\* find_files(target_dir, ignore_files, ignore_dirs); the list it returns is
\* taken as the set of its elements
find_files(target_dir, ignore_files, ignore_dirs, tree) ==
    LET ifs == IF ignore_files.none THEN <<>> ELSE ignore_files.list
        ids == IF ignore_dirs.none THEN <<GIT>> ELSE ignore_dirs.list
        in_kept_dirs == {f \in RglobFiles(target_dir, tree) :
                           \A i \in 1..Len(ids) : ids[i] \notin ParentNames(f)}
    IN  {f \in in_kept_dirs : \A i \in 1..Len(ifs) : f.parts[Len(f.parts)] # ifs[i]}

\* md5(bytes).hexdigest(), taken as free of collisions
md5(bytes) == <<"md5", bytes>>

HashKeyName(ifile, directory) == ifile.parts[Len(ifile.parts)]

\* Path(ifile).relative_to(directory).as_posix()
HashKey(ifile, directory) ==
    Join(RelativeTo(ifile, PathOf(directory)).parts, "/")

\* get_file_hashes(directory)
get_file_hashes(directory, tree) ==
    LET files == find_files(directory, NoList, NoList, tree)
        bytes(f) == tree[RelativeTo(f, PathOf(directory)).parts]
    IN  [k \in {HashKey(f, directory) : f \in files} |->
            md5(bytes(CHOOSE f \in files : HashKey(f, directory) = k))]

----------------------------------------------------------------------------
(* Config and Config.update.  A dict is a function from its keys; a key     *)
(* that is absent and a key whose value is None read the same through       *)
(* dict.get, so None is modelled by the key's absence.                      *)

ListFields == {"files", "excludes", "includes"}

BoolFields == {"dry_run", "mkdir", "delete", "delete_excluded"}

ConfigFields == {"remotes", "mode"} \cup ListFields \cup BoolFields

\* Config(): every field at its default
NewConfig ==
    [remotes |-> <<>>, files |-> <<>>, excludes |-> <<>>, includes |-> <<>>,
     mode |-> "", dry_run |-> FALSE, mkdir |-> FALSE, delete |-> FALSE,
     delete_excluded |-> FALSE]

\* Python's truth value of a field's value
Truthy(key, v) ==
    CASE key \in ListFields -> v # <<>>
      [] key \in BoolFields -> v
      [] key = "mode" -> v # ""
      [] OTHER -> DOMAIN v # {}

\* in_dict.get(key) is truthy
GetsTruthy(in_dict, key) == key \in DOMAIN in_dict /\ Truthy(key, in_dict[key])

UpdateAppending(self, in_dict) ==
    [key \in ConfigFields |->
        IF GetsTruthy(in_dict, key)
        THEN (IF key \in ListFields THEN self[key] \o in_dict[key] ELSE in_dict[key])
        ELSE self[key]]

\* Config.update(in_dict)
Update(self, in_dict) ==
    [key \in ConfigFields |->
        IF GetsTruthy(in_dict, key) THEN in_dict[key] ELSE self[key]]

\* main's merge: the file's dict first, and only when it is truthy, then vars(args)
Merge(config_yaml, args_dict) ==
    Update(IF DOMAIN config_yaml # {} THEN Update(NewConfig, config_yaml)
           ELSE NewConfig,
           args_dict)

----------------------------------------------------------------------------
(* show_diff.  DeepDiff names a dictionary item "root['<key>']"; the code   *)
(* cuts the key out of that name with x[6:-2].                              *)

DeepPath(key) == <<"r", "o", "o", "t", "[", "'">> \o key \o <<"'", "]">>

\* DeepDiff(state1, state2) of two flat dicts of strings
DeepDiff(state1, state2) ==
    [dictionary_item_added |->
        {DeepPath(k) : k \in DOMAIN state2 \ DOMAIN state1},
     dictionary_item_removed |->
        {DeepPath(k) : k \in DOMAIN state1 \ DOMAIN state2},
     values_changed |->
        {DeepPath(k) : k \in {j \in DOMAIN state1 \cap DOMAIN state2 :
                                 state1[j] # state2[j]}}]

KeyOfShort(x) == SubSeq(x, 6, Len(x) - 2)

\* x[6:-2]
KeyOf(x) == SubSeq(x, 7, Len(x) - 2)

Message(kind, items) == [kind |-> kind, items |-> items]

\* show_diff(state1, state2): what it prints, the three lists it builds, and
\* whether it ends in sys.exit(1).  The unified text diff of the changed files
\* (lines 153-186) prints lines only and is left out.
show_diff(state1, state2) ==
    LET diff == DeepDiff(state1, state2)
        added == {KeyOf(x) : x \in diff.dictionary_item_added}
        removed == {KeyOf(x) : x \in diff.dictionary_item_removed}
        changed == {KeyOf(x) : x \in diff.values_changed}
    IN  IF diff.dictionary_item_added = {} /\ diff.dictionary_item_removed = {}
           /\ diff.values_changed = {}
        THEN [added |-> {}, removed |-> {}, changed |-> {},
              out |-> <<Message("Clean!", {})>>, exits |-> FALSE]
        ELSE [added |-> added, removed |-> removed, changed |-> changed,
              out |-> (IF diff.dictionary_item_added # {}
                       THEN <<Message("ADDED", added)>> ELSE <<>>)
                      \o (IF diff.dictionary_item_removed # {}
                          THEN <<Message("REMOVED", removed)>> ELSE <<>>)
                      \o (IF diff.values_changed # {}
                          THEN <<Message("CHANGED", changed)>> ELSE <<>>),
              exits |-> TRUE]

\* a scratch directory: its name, whether a directory of that name was there
\* before, and whether it is gone again when the call has ended
Made(name, existed, removed) ==
    [name |-> name, existed |-> existed, removed |-> removed]

TMP == <<"/", "tmp", "/">>

\* the path arguments show_diff is handed: None, a directory, or a regular file
\* with the suffix .gz
PathKinds == {"none", "dir", "gz"}

\* show_diff, lines 153-162: where the changed members of the archives are
\* extracted to.  tmp holds the names /tmp has before the call.
ExtractDirs(state1, state2, path1, path2, tmp) ==
    IF DeepDiff(state1, state2).values_changed = {} THEN <<>>
    ELSE (IF path1 = "gz"
          THEN <<Made(TMP \o <<"path1">>, "path1" \in tmp, FALSE)>> ELSE <<>>)
         \o (IF path2 = "gz"
             THEN <<Made(TMP \o <<"path2">>, "path2" \in tmp, FALSE)>> ELSE <<>>)

\* the names tempfile may give a new directory
TempNames == {"tmpA", "tmpB"}

\* tempfile.TemporaryDirectory(): a name that nothing in /tmp has
Mkdtemp(tmp) == TempNames \ tmp

----------------------------------------------------------------------------
(* main(), push() and pull(): the argument lists they build.  An argument   *)
(* list is a sequence of strings.                                           *)

SYNC_COMMAND == <<"rsync">>

SYNC_ARGS_BASE == << <<"-avzhPr">> >>

SEP == "/"

\* a remote whose value in the file is not a string (YAML's null)
NoneValue == <<"None">>

Last(s) == s[Len(s)]

Contains(s, tok) == \E i \in 1..Len(s) : s[i] = tok

\* str.split(): cut at white space, no empty pieces
SplitWords(s) == SelectSeq(Split(s, " "), LAMBDA w : w # <<>>)

RECURSIVE Prefixed(_, _)
\* [prefix + item for item in items]
Prefixed(prefix, items) ==
    IF items = <<>> THEN <<>>
    ELSE <<prefix \o Head(items)>> \o Prefixed(prefix, Tail(items))

\* vars(args): the dict Config.update reads the command line from
VarsOf(a) ==
    [mode |-> a.mode, files |-> a.files, excludes |-> a.excludes,
     includes |-> a.includes, dry_run |-> a.dry_run, mkdir |-> a.mkdir,
     delete |-> a.delete, delete_excluded |-> a.delete_excluded,
     no_confirm |-> a.no_confirm, no_excludes |-> a.no_excludes,
     target |-> a.target, source |-> a.source, remote |-> a.remote,
     copy |-> a.copy, command |-> a.command]

SyncArgsExcludesFirst(cfg, a) ==
    SYNC_ARGS_BASE
    \o (IF cfg.delete THEN << <<"--delete">> >> ELSE <<>>)
    \o (IF cfg.delete_excluded THEN << <<"--delete-excluded">> >> ELSE <<>>)
    \o (IF cfg.dry_run THEN << <<"--dry-run">> >> ELSE <<>>)
    \o (IF ~a.no_excludes
        THEN Prefixed(<<"--exclude=">>, cfg.excludes)
             \o Prefixed(<<"--include=">>, cfg.includes)
        ELSE <<>>)
    \o a.extra

\* main, lines 335-354: the transfer tool's arguments
SyncArgsOf(cfg, a) ==
    SYNC_ARGS_BASE
    \o (IF cfg.delete THEN << <<"--delete">> >> ELSE <<>>)
    \o (IF cfg.delete_excluded THEN << <<"--delete-excluded">> >> ELSE <<>>)
    \o (IF cfg.dry_run THEN << <<"--dry-run">> >> ELSE <<>>)
    \o (IF ~a.no_excludes
        THEN Prefixed(<<"--include=">>, cfg.includes)
             \o Prefixed(<<"--exclude=">>, cfg.excludes)
        ELSE <<>>)
    \o a.extra

\* the order of a remotes dict's keys
RemoteOrder == <<"a", "b", "all">>

KeysOf(remotes) == SelectSeq(RemoteOrder, LAMBDA n : n \in DOMAIN remotes)

\* push, lines 194-195
PushTargets(targets, remotes) ==
    IF targets = <<"all">> THEN KeysOf(remotes) ELSE targets

\* Path('.').resolve().relative_to(str(root))
RelOf(cwd, rt) == RelativeTo(cwd, PathOf(PathStr(rt)))

RemotePathFromCwd(remotestr, cwd, rt) ==
    PathStr(PathJoin(PathOf(remotestr), RelOf(cwd, cwd))) \o <<SEP>>

\* str(Path(remotes[target]) / Path('.').resolve().relative_to(str(root))) + os.sep
RemotePath(remotestr, cwd, rt) ==
    PathStr(PathJoin(PathOf(remotestr), RelOf(cwd, rt))) \o <<SEP>>

\* pull, line 232: the remote path of one file of an explicit file list
RemoteFilePath(remotestr, cwd, rt, file) ==
    PathStr(PathJoin(PathOf(PathStr(PathOf(remotestr))), RelOf(cwd, rt)))
    \o <<SEP, ".", SEP>> \o file

\* push, lines 211-216: the command that creates the directory
MkdirCommand(target, remotestr, cwd, rt) ==
    LET mkdir_path0 == Last(Split(PathStr(PathOf(remotestr)), ":"))
        mkdir_path == PathStr(PathJoin(PathOf(mkdir_path0), RelOf(cwd, rt)))
                      \o <<SEP>>
        mkdir_cmd == <<"mkdir", " ", "-p", " ">> \o mkdir_path
    IN  SplitWords(IF Contains(remotestr, ":")
                   THEN <<"ssh", " ", target, " ">> \o mkdir_cmd
                   ELSE mkdir_cmd)

\* push, lines 201-208 and 218: the transfer tool's command for one target
PushCommand(s_args, files, remotestr, cwd, rt) ==
    <<SYNC_COMMAND>> \o s_args \o << <<"--relative">> >>
    \o (IF files # <<>> THEN files ELSE << <<".">> >>)
    \o <<RemotePath(remotestr, cwd, rt)>>

RECURSIVE RemoteFilePaths(_, _, _, _)
RemoteFilePaths(remotestr, cwd, rt, files) ==
    IF files = <<>> THEN <<>>
    ELSE <<RemoteFilePath(remotestr, cwd, rt, Head(files))>>
         \o RemoteFilePaths(remotestr, cwd, rt, Tail(files))

\* pull, lines 226-238: the transfer tool's command
PullCommand(s_args, files, remotestr, cwd, rt) ==
    <<SYNC_COMMAND>> \o s_args
    \o (IF files # <<>>
        THEN << <<"--relative">> >> \o RemoteFilePaths(remotestr, cwd, rt, files)
        ELSE <<RemotePath(remotestr, cwd, rt)>>)
    \o << <<".">> >>

\* run_command's record of one subprocess
Ran(argv, rc) == [argv |-> argv, rc |-> rc]

\* str.lower() of an answer
Lower(s) == CASE s = "Y" -> "y" [] s = "N" -> "n" [] OTHER -> s

AffirmativeAny(warn) == TRUE

\* main, lines 359 and 365
Affirmative(warn) == Lower(warn) = "y" \/ warn = ""

----------------------------------------------------------------------------
(* The inputs the calls are tried on. *)

DirNames == {<<"p">>, <<"s">>}

RECURSIVE PathsUpTo(_)
\* every sequence of at most n directory names
PathsUpTo(n) ==
    IF n = 0 THEN {<<>>}
    ELSE LET shorter == PathsUpTo(n - 1)
         IN  shorter \cup {q \o <<d>> : q \in shorter, d \in DirNames}

Dirs == PathsUpTo(MaxDepth)

\* the file systems findup is tried on: at most MaxCfg directories hold an
\* entry of the name, a regular file or, in at most one of them, a directory
FindupTrees ==
    UNION {{[regular |-> {d \o <<CONFIG_NAME>> : d \in F},
             dirs |-> Dirs \cup {d \o <<CONFIG_NAME>> : d \in G}] :
               G \in {X \in SUBSET (Dirs \ F) :
                         Cardinality(X) <= 1 /\ Cardinality(X) + Cardinality(F) <= MaxCfg}} :
             F \in {X \in SUBSET Dirs : Cardinality(X) <= MaxCfg}}

KeyList == << <<"a">>, <<"d", "/", "c">>, <<"b">>, <<"e">>, <<"g">> >>

FileKeys == {KeyList[i] : i \in 1..MaxFiles}

Hashes == {"h1", "h2"}

\* every hash map over the file keys
HashMaps == UNION {[D -> Hashes] : D \in SUBSET FileKeys}

\* the trees main's diff is tried on: every hash map over all but the last file key
TreeMaps ==
    UNION {[D -> Hashes] : D \in SUBSET {KeyList[i] : i \in 1..(MaxFiles - 1)}}

\* the directories find_files is called on: the current directory, a directory
\* below it, and directories that lie below one called .git or build
TargetDirs ==
    {<<".">>, <<"w">>, <<"/", "p", "/", ".git", "/", "w">>, <<"build", "/", "w">>}

\* the files a tree may hold, by their components below the directory
FileCandidates ==
    {<< <<"f">> >>, << <<"s">>, <<"f">> >>, << GIT, <<"f">> >>,
     << <<".git", "hub">>, <<"g">> >>, << <<"s">>, GIT, <<"g">> >>,
     << <<"build">>, <<"g">> >>}

FileSets == {D \in SUBSET FileCandidates : Cardinality(D) <= MaxFiles}

\* the trees find_files is tried on (the contents play no part)
PlainTrees == {[r \in D |-> "x"] : D \in FileSets}

\* the trees get_file_hashes is tried on; "" is an empty file
ContentTrees == UNION {[D -> {"", "x"}] : D \in FileSets}

IgnoreDirsArgs ==
    {NoList, ListOf(<<>>), ListOf(<< <<"build">> >>), ListOf(<< GIT, <<"build">> >>)}

IgnoreFilesArgs == {NoList, ListOf(<< <<"g">> >>)}

DictKeys == ConfigFields \cup {"target", "no_confirm"}

\* the value a dict holds for a key: an empty (falsy) or a set (truthy) one;
\* who names the values' origin, "f" for the file and "c" for the command line
DictValue(key, who, choice) ==
    CASE key \in ListFields \cup {"target"} ->
            IF choice = "empty" THEN <<>>
            ELSE IF who = "f" THEN << <<"f1">>, <<"f2">> >> ELSE << <<"c1">> >>
      [] key \in BoolFields \cup {"no_confirm"} -> choice = "set"
      [] key = "mode" ->
            IF choice = "empty" THEN "" ELSE IF who = "f" THEN "pull" ELSE "push"
      [] OTHER ->
            IF choice = "empty" THEN <<>>
            ELSE [n \in {who} |-> <<"/", "b">>]

\* the choices of at most MaxKeys keys
DictChoices ==
    UNION {[D -> {"empty", "set"}] :
             D \in {X \in SUBSET DictKeys : Cardinality(X) <= MaxKeys}}

DictOf(who, choices) == [k \in DOMAIN choices |-> DictValue(k, who, choices[k])]

\* the directories main is started in
MainCwds == {<< <<"p">> >>, << <<"p">>, <<"s">>, <<"s">> >>}

\* those directories and the ones above them
MainDirs == UNION {{SubSeq(c, 1, n) : n \in 0..Len(c)} : c \in MainCwds}

\* the sets of directories that hold the configuration file
CfgPlacements == {{}, {<<>>}, {<< <<"p">> >>}, {<< <<"p">>, <<"s">> >>}}

FsOf(placement) ==
    [regular |-> {d \o <<CONFIG_NAME>> : d \in placement}, dirs |-> MainDirs]

LocalAndSsh == [n \in {"a", "b"} |->
                  IF n = "a" THEN <<"/", "b">> ELSE <<"h", ":", "/", "r">>]

SlashAndNull == [n \in {"a", "b"} |->
                   IF n = "a" THEN NoneValue ELSE <<"/", "b", "/">>]

WithAll == [n \in {"a", "all"} |->
              IF n = "a" THEN <<"/", "b">> ELSE <<"u@h", ":", "/", "r">>]

\* the parsed contents of the configuration file; <<>> is an empty file
FileConfigs ==
    {<<>>,
     [remotes |-> LocalAndSsh, excludes |-> << <<"x1">>, <<"x2">> >>,
      includes |-> << <<"i1">>, <<"i2">> >>],
     [remotes |-> SlashAndNull],
     [remotes |-> WithAll]}

\* main's surroundings: where it runs, where configuration files lie, and what
\* the one that findup finds holds
Envs ==
    {e \in [cwd : {AbsPath(c) : c \in MainCwds},
            fs : {FsOf(pl) : pl \in CfgPlacements},
            file : FileConfigs] :
        findup(CONFIG_NAME, e.cwd, e.fs).found \/ e.file = <<>>}

TargetNames == {"a", "b", "all"}

RECURSIVE SeqsUpTo(_, _)
SeqsUpTo(S, n) ==
    IF n = 0 THEN {<<>>}
    ELSE LET shorter == SeqsUpTo(S, n - 1)
         IN  shorter \cup {q \o <<x>> : q \in shorter, x \in S}

TargetLists == SeqsUpTo(TargetNames, MaxTargets)

FileLists == {<<>>, << <<"f">> >>, << <<"f">>, <<"d", "/", "g">> >>}

\* the global flags of the push and of the pull command lines
PushFlagSets == SUBSET {"no_confirm", "dry_run", "mkdir", "no_excludes"}

PullFlagSets ==
    {F \in SUBSET {"no_confirm", "dry_run", "no_excludes", "delete", "delete_excluded"} :
        /\ ("delete_excluded" \in F) => ("delete" \in F)
        /\ ("no_excludes" \in F) => ("delete" \notin F)}

\* the namespace parse_args returns; target_none says that --target was not given
ArgsOf(mode, target, source, remote, copy, files, flags) ==
    [mode |-> mode, target |-> target, target_none |-> FALSE, source |-> source,
     remote |-> remote, copy |-> copy, files |-> files,
     excludes |-> <<>>, includes |-> <<>>, command |-> << <<"ls">> >>,
     no_excludes |-> "no_excludes" \in flags, no_confirm |-> "no_confirm" \in flags,
     dry_run |-> "dry_run" \in flags, mkdir |-> "mkdir" \in flags,
     delete |-> "delete" \in flags, delete_excluded |-> "delete_excluded" \in flags,
     extra |-> <<>>]

PushLines ==
    {ArgsOf("push", t, "", "", FALSE, f, F) :
        t \in TargetLists, f \in {fl \in FileLists : Len(fl) <= 1}, F \in PushFlagSets}

PullLines ==
    {ArgsOf("pull", <<>>, src, "", FALSE, f, F) :
        src \in TargetNames \cup {""}, f \in FileLists,
        F \in PullFlagSets}

DiffLines ==
    {ArgsOf("diff", <<>>, "", r, c, <<>>, {}) : r \in TargetNames, c \in BOOLEAN}

CmdLines ==
    {ArgsOf("cmd", t, "", "", FALSE, <<>>, {}) : t \in TargetLists}
    \cup {[ArgsOf("cmd", <<>>, "", "", FALSE, <<>>, {}) EXCEPT !.target_none = TRUE]}

OtherLines ==
    {ArgsOf(m, <<>>, "", "", FALSE, <<>>, {}) : m \in {"edit", ""}}

\* push and pull lines that carry -i, -e and an argument the parser does not know
PatternLines ==
    {[ArgsOf(m, IF m = "push" THEN <<"a">> ELSE <<>>,
             IF m = "pull" THEN "a" ELSE "", "", FALSE, <<>>, F)
        EXCEPT !.includes = i, !.excludes = e, !.extra = x] :
        m \in {"push", "pull"}, F \in SUBSET {"no_confirm", "no_excludes"},
        i \in {<<>>, << <<"ci1">>, <<"ci2">> >>},
        e \in {<<>>, << <<"ce1">> >>},
        x \in {<<>>, << <<"--bwlimit=1">> >>}}

CommandLines ==
    PushLines \cup PullLines \cup DiffLines \cup CmdLines \cup OtherLines
    \cup PatternLines

\* the pairs of path arguments show_diff is tried on
PathPairs ==
    {pp \in PathKinds \X PathKinds :
        pp \in {<<"none", "none">>, <<"dir", "dir">>, <<"gz", "dir">>, <<"gz", "gz">>}}

\* what /tmp holds before a call: nothing, or what an earlier run left there
TmpContents == {{}, {"path1", "tmpA"}}

ExitCodes == {0, 23}

Answers == {"y", "Y", "", "n"}

----------------------------------------------------------------------------
(* The state before any call. *)

NoCall == [called |-> FALSE]

Init ==
    /\ pc = "idle"
    /\ fu = NoCall
    /\ ff = NoCall
    /\ gh = NoCall
    /\ mg = NoCall
    /\ sd = NoCall
    /\ env = NoCall
    /\ args = NoCall
    /\ root = NoPath
    /\ config = NewConfig
    /\ sync_args = <<>>
    /\ todo = <<>>
    /\ log = <<>>
    /\ prompts = <<>>
    /\ out = <<>>
    /\ scratch = <<>>
    /\ exitCode = 0

\* findup(name, path) on a directory tree
FindupCall ==
    /\ pc = "idle"
    /\ \E fs \in FindupTrees, start \in Dirs :
          fu' = [called |-> TRUE, name |-> CONFIG_NAME, start |-> AbsPath(start),
                 fs |-> fs, result |-> findup(CONFIG_NAME, AbsPath(start), fs)]
    /\ pc' = "findup_done"
    /\ UNCHANGED <<ff, gh, scratch, mg, sd, env, args, root, config, sync_args, todo, log,
                   prompts, out, exitCode>>

\* Config() updated with the file's dict and then with the command line's
MergeCall ==
    /\ pc = "idle"
    /\ \E fc \in DictChoices, cc \in DictChoices :
          mg' = [called |-> TRUE, fileChoices |-> fc, cliChoices |-> cc,
                 file |-> DictOf("f", fc), cli |-> DictOf("c", cc),
                 result |-> Merge(DictOf("f", fc), DictOf("c", cc))]
    /\ pc' = "merge_done"
    /\ UNCHANGED <<ff, gh, scratch, fu, sd, env, args, root, config, sync_args, todo, log,
                   prompts, out, exitCode>>

\* show_diff(state1, state2) on two hash maps
ShowDiffCall ==
    /\ pc = "idle"
    /\ \E state1 \in HashMaps, state2 \in HashMaps, pp \in PathPairs,
          tmp \in TmpContents :
          LET r == show_diff(state1, state2)
          IN  /\ sd' = [called |-> TRUE, state1 |-> state1, state2 |-> state2,
                        path1 |-> pp[1], path2 |-> pp[2],
                        added |-> r.added, removed |-> r.removed,
                        changed |-> r.changed]
              /\ scratch' = ExtractDirs(state1, state2, pp[1], pp[2], tmp)
              /\ out' = r.out
              /\ exitCode' = IF r.exits THEN 1 ELSE 0
    /\ pc' = "show_diff_done"
    /\ UNCHANGED <<ff, gh, fu, mg, env, args, root, config, sync_args, todo, log, prompts>>

\* find_files(target_dir, ignore_files, ignore_dirs) on a tree
FindFilesCall ==
    /\ pc = "idle"
    /\ \E target_dir \in TargetDirs, tree \in PlainTrees,
          ignore_files \in IgnoreFilesArgs, ignore_dirs \in IgnoreDirsArgs :
          ff' = [called |-> TRUE, target_dir |-> target_dir, tree |-> tree,
                 ignore_files |-> ignore_files, ignore_dirs |-> ignore_dirs,
                 result |-> find_files(target_dir, ignore_files, ignore_dirs, tree)]
    /\ pc' = "find_files_done"
    /\ UNCHANGED <<fu, gh, mg, sd, env, args, root, config, sync_args, todo, log,
                   prompts, out, scratch, exitCode>>

\* get_file_hashes(directory), called twice on the same tree
GetFileHashesCall ==
    /\ pc = "idle"
    /\ \E directory \in TargetDirs, tree \in ContentTrees :
          gh' = [called |-> TRUE, directory |-> directory, tree |-> tree,
                 result |-> get_file_hashes(directory, tree),
                 again |-> get_file_hashes(directory, tree)]
    /\ pc' = "get_file_hashes_done"
    /\ UNCHANGED <<fu, ff, mg, sd, env, args, root, config, sync_args, todo, log,
                   prompts, out, scratch, exitCode>>

----------------------------------------------------------------------------
(* main(). *)

Stop(code) == [pc |-> "done", exit |-> code, todo |-> <<>>]

Known(names, remotes) == \A i \in 1..Len(names) : names[i] \in DOMAIN remotes

KnownNever(names, remotes) == TRUE

\* the asserts of lines 357, 363 and 397
AssertKnown(names, remotes) == Known(names, remotes)

\* main, lines 356-406: where main goes once the arguments are built.  A failed
\* assert and an uncaught exception end the process with exit code 1.
Dispatch(cfg, a) ==
    CASE cfg.mode = "push" /\ a.target # <<>> ->
            IF ~AssertKnown(a.target, cfg.remotes) THEN Stop(1)
            ELSE [pc |-> IF a.no_confirm THEN "push" ELSE "confirm", exit |-> 0,
                  todo |-> PushTargets(a.target, cfg.remotes)]
      [] cfg.mode = "pull" /\ a.source # "" ->
            IF ~AssertKnown(<<a.source>>, cfg.remotes) THEN Stop(1)
            ELSE [pc |-> IF a.no_confirm THEN "pull" ELSE "confirm", exit |-> 0,
                  todo |-> <<>>]
      [] cfg.mode = "diff" -> [pc |-> "diff", exit |-> 0, todo |-> <<>>]
      [] cfg.mode = "edit" -> [pc |-> "edit", exit |-> 0, todo |-> <<>>]
      [] cfg.mode = "cmd" ->
            IF a.target_none \/ ~AssertKnown(a.target, cfg.remotes) THEN Stop(1)
            ELSE IF a.target = <<>> THEN Stop(0)
            ELSE [pc |-> "cmd", exit |-> 0, todo |-> a.target]
      [] OTHER -> Stop(0)

\* main, lines 309-357: the configuration is found, read and merged, and the
\* transfer tool's arguments are built
MainStart ==
    /\ pc = "idle"
    /\ \E e \in Envs, a \in CommandLines :
          LET found == findup(CONFIG_NAME, e.cwd, e.fs)
              config_yaml == IF found.found THEN e.file ELSE <<>>
              rt == IF DOMAIN config_yaml # {} THEN found ELSE NoPath
              cfg == Merge(config_yaml, VarsOf(a))
              go == IF ~rt.found \/ cfg.mode = "" THEN Stop(0) ELSE Dispatch(cfg, a)
          IN  /\ env' = e
              /\ args' = a
              /\ root' = rt
              /\ config' = cfg
              /\ sync_args' = IF ~rt.found \/ cfg.mode = "" THEN <<>>
                              ELSE SyncArgsOf(cfg, a)
              /\ pc' = go.pc
              /\ exitCode' = go.exit
              /\ todo' = go.todo
    /\ UNCHANGED <<ff, gh, scratch, fu, mg, sd, log, prompts, out>>

\* main, lines 358-359 and 364-365: input() returns the operator's answer
Confirm ==
    /\ pc = "confirm"
    /\ \E warn \in Answers :
          /\ prompts' = Append(prompts, warn)
          /\ pc' = IF Affirmative(warn) THEN config.mode ELSE "done"
    /\ UNCHANGED <<ff, gh, scratch, fu, mg, sd, env, args, root, config, sync_args, todo, log,
                   out, exitCode>>

\* push, lines 197-218: one turn of the loop over the targets
PushTarget ==
    /\ pc = "push"
    /\ LET target == Head(todo)
           raises == \/ target \notin DOMAIN config.remotes
                     \/ config.remotes[target] = NoneValue
                     \/ ~IsRelativeTo(env.cwd, root.path)
       IN  IF raises
           THEN /\ pc' = "done"
                /\ exitCode' = 1
                /\ UNCHANGED log
           ELSE /\ \E rc_mkdir \in ExitCodes, rc_sync \in ExitCodes :
                      log' = log
                         \o (IF config.mkdir
                             THEN <<Ran(MkdirCommand(<<target>>, config.remotes[target],
                                                     env.cwd, root.path), rc_mkdir)>>
                             ELSE <<>>)
                         \o <<Ran(PushCommand(sync_args, config.files,
                                              config.remotes[target],
                                              env.cwd, root.path), rc_sync)>>
                /\ pc' = IF Tail(todo) = <<>> THEN "done" ELSE "push"
                /\ UNCHANGED exitCode
    /\ todo' = Tail(todo)
    /\ UNCHANGED <<ff, gh, scratch, fu, mg, sd, env, args, root, config, sync_args, prompts, out>>

\* pull, lines 221-238
Pull ==
    /\ pc = "pull"
    /\ IF args.source \notin DOMAIN config.remotes
       THEN UNCHANGED <<log, exitCode>>
       ELSE IF config.remotes[args.source] = NoneValue
               \/ ~IsRelativeTo(env.cwd, root.path)
       THEN exitCode' = 1 /\ UNCHANGED log
       ELSE /\ \E rc \in ExitCodes :
                  log' = Append(log, Ran(PullCommand(sync_args, config.files,
                                                     config.remotes[args.source],
                                                     env.cwd, root.path), rc))
            /\ UNCHANGED exitCode
    /\ pc' = "done"
    /\ UNCHANGED <<ff, gh, scratch, fu, mg, sd, env, args, root, config, sync_args, todo, prompts, out>>

\* p.name of a relative path given as a string
Basename(key) == Last(Split(key, SEP))

\* what the transfer tool's dry run from the local tree to the remote one lists
\* with --checksum: the local files the remote lacks or holds with other content
Pass1Files(local, remote) ==
    SelectSeq(KeyList, LAMBDA k :
        /\ k \in DOMAIN local
        /\ (k \notin DOMAIN remote \/ local[k] # remote[k]))

\* get_file_hashes(tempdir) after the listed files were copied from the remote
\* into the one directory tempdir, each under its base name
Snapshot(listed, remote) ==
    LET copied == {listed[i] : i \in {j \in 1..Len(listed) : listed[j] \in DOMAIN remote}}
    IN  [b \in {Basename(k) : k \in copied} |->
            remote[CHOOSE k \in copied : Basename(k) = b]]

\* main, lines 368-387: diff.  The trees under the current directory and under
\* the remote path are read here for the first time.  The second transfer of
\* --copy fails (23) exactly when a listed file is not on the remote.
Diff ==
    /\ pc = "diff"
    /\ IF \/ args.remote \notin DOMAIN config.remotes
          \/ config.remotes[args.remote] = NoneValue
          \/ ~IsRelativeTo(env.cwd, root.path)
       THEN /\ exitCode' = 1
            /\ UNCHANGED <<env, log, sd, out, scratch>>
       ELSE \E local \in TreeMaps, remote \in TreeMaps, rc1 \in ExitCodes, rc2 \in ExitCodes,
               tmp \in TmpContents :
              LET remote_path == RemotePath(config.remotes[args.remote], env.cwd, root.path)
                  listed == IF rc1 = 0 THEN Pass1Files(local, remote) ELSE <<>>
                  changed_files == Prefixed(remote_path, listed)
                  remote_hashes == Snapshot(listed, remote)
                  r == show_diff(local, remote_hashes)
              IN  /\ env' = [cwd |-> env.cwd, fs |-> env.fs, file |-> env.file,
                             local |-> local, remote |-> remote]
                  /\ IF args.copy
                     THEN \E tempdir \in Mkdtemp(tmp) :
                          /\ rc2 = IF \A i \in 1..Len(listed) : listed[i] \in DOMAIN remote
                                   THEN 0 ELSE 23
                          /\ scratch' = <<Made(TMP \o <<tempdir>>, tempdir \in tmp, TRUE)>>
                          /\ log' = log
                               \o <<Ran(<<SYNC_COMMAND, <<"-ar">>, <<"--dry-run">>,
                                          <<"--checksum">>, <<"--out-format=\"%f\"">>,
                                          <<".">>, remote_path>>, rc1)>>
                               \o (IF changed_files # <<>>
                                   THEN <<Ran(<<SYNC_COMMAND, <<"-avzhPrc">> >>
                                              \o changed_files \o <<TMP \o <<tempdir>> >>, rc2)>>
                                   ELSE <<>>)
                          /\ IF changed_files # <<>>
                             THEN /\ sd' = [called |-> TRUE, state1 |-> local,
                                            state2 |-> remote_hashes,
                                            path1 |-> "dir", path2 |-> "dir",
                                            added |-> r.added, removed |-> r.removed,
                                            changed |-> r.changed]
                                  /\ out' = r.out
                                  /\ exitCode' = IF r.exits THEN 1 ELSE 0
                             ELSE UNCHANGED <<sd, out, exitCode>>
                     ELSE /\ log' = log
                               \o <<Ran(<<SYNC_COMMAND, <<"-arnci">>, <<".">>, remote_path>>, rc1),
                                    Ran(<<SYNC_COMMAND, <<"-arnci">>, remote_path, <<".">> >>, rc2)>>
                          /\ UNCHANGED <<sd, out, exitCode, scratch>>
    /\ pc' = "done"
    /\ UNCHANGED <<ff, gh, fu, mg, args, root, config, sync_args, todo, prompts>>

\* main, lines 389-394: edit
Edit ==
    /\ pc = "edit"
    /\ \E rc \in ExitCodes :
          log' = Append(log, Ran(<< <<"vi">>,
                     PathStr(PathJoin(root.path, PathOf(CONFIG_NAME))) >>, rc))
    /\ pc' = "done"
    /\ UNCHANGED <<ff, gh, scratch, fu, mg, sd, env, args, root, config, sync_args, todo, prompts,
                   out, exitCode>>

\* run_ssh_command's argument list
SshCommand(remote, command, directory) ==
    << <<"ssh">>, remote,
       <<"cd", " ">> \o PathStr(PathOf(directory)) \o <<" ", "&&", " ">> \o command >>

\* main, lines 396-406: cmd.  Both branches of the loop's body end in sys.exit;
\* an exception (KeyError, TypeError, ValueError) ends the process with code 1.
CmdTarget ==
    /\ pc = "cmd"
    /\ LET target == Head(todo)
           remotestr == config.remotes[target]
           remotedir == RemotePath(remotestr, env.cwd, root.path)
           pieces == Split(remotedir, ":")
       IN  IF \/ target \notin DOMAIN config.remotes
              \/ remotestr = NoneValue
              \/ ~IsRelativeTo(env.cwd, root.path)
              \/ (Contains(remotedir, ":") /\ Len(pieces) # 2)
           THEN exitCode' = 1 /\ UNCHANGED log
           ELSE \E rc \in ExitCodes :
                   /\ log' = Append(log,
                         Ran(IF Contains(remotedir, ":")
                             THEN SshCommand(pieces[1], Join(args.command, " "), pieces[2])
                             ELSE args.command, rc))
                   /\ exitCode' = rc
    /\ todo' = Tail(todo)
    /\ pc' = "done"
    /\ UNCHANGED <<ff, gh, scratch, fu, mg, sd, env, args, root, config, sync_args, prompts, out>>

----------------------------------------------------------------------------
(* What the claims speak of. *)

\* main has been started
MainRunning == args # NoCall

InMode(modes) == MainRunning /\ args.mode \in modes

\* a subprocess that runs the transfer tool
IsSync(entry) == entry.argv[1] = SYNC_COMMAND

\* the transfer tool's subprocesses, in the order they were started
SyncLog == SelectSeq(log, IsSync)

HasArg(argv, arg) == \E i \in 1..Len(argv) : argv[i] = arg

\* the names the configuration file gives its remotes
ConfiguredRemotes ==
    IF "remotes" \in DOMAIN env.file THEN DOMAIN env.file.remotes ELSE {}

\* the configuration files that lie in the current directory or above it, the
\* root directory included, each given by the length of its directory's path
ConfigAbove ==
    {n \in 0..Len(env.cwd.parts) :
        SubSeq(env.cwd.parts, 1, n) \o <<CONFIG_NAME>> \in env.fs.regular}

AffirmativeAnswers == {"y", "Y", ""}

\* the targets a push that was let through works on, in order
PushList == PushTargets(args.target, config.remotes)

\* the string s names the path base/rel, where rel is what leads from the
\* project root to the current directory, without a separator at its end
NamesPlacedPath(s, base) ==
    /\ Len(s) > 0
    /\ Last(s) # SEP
    /\ \E rel \in SeqsUpTo(DirNames, Len(env.cwd.parts)) :
          /\ root.path.parts \o rel = env.cwd.parts
          /\ PathOf(s) = [abs |-> PathOf(base).abs,
                          parts |-> PathOf(base).parts \o rel]

\* C1: a push or pull with no file list hands the transfer tool the remote path
\* B/relative(C,R) followed by a separator; a pull with a file list hands it, for
\* each file f in order, B/relative(C,R)/./f with no separator at the end; the
\* relative part is taken against the project root R.
C1_RemotePaths ==
    /\ (InMode({"push"}) /\ config.files = <<>>) =>
          \A i \in 1..Len(SyncLog) :
             LET arg == Last(SyncLog[i].argv)
             IN  /\ Last(arg) = SEP
                 /\ NamesPlacedPath(SubSeq(arg, 1, Len(arg) - 1),
                                    config.remotes[PushList[i]])
    /\ (InMode({"pull"}) /\ config.files = <<>>) =>
          \A i \in 1..Len(SyncLog) :
             LET argv == SyncLog[i].argv
                 arg == argv[Len(argv) - 1]
             IN  /\ Last(arg) = SEP
                 /\ NamesPlacedPath(SubSeq(arg, 1, Len(arg) - 1),
                                    config.remotes[args.source])
    /\ (InMode({"pull"}) /\ config.files # <<>>) =>
          \A i \in 1..Len(SyncLog) :
             LET argv == SyncLog[i].argv
                 n == Len(config.files)
             IN  \A j \in 1..n :
                    LET arg == argv[Len(argv) - 1 - n + j]
                        f == config.files[j]
                        cut == Len(arg) - Len(f) - 3
                    IN  /\ cut > 0
                        /\ SubSeq(arg, cut + 1, Len(arg)) = <<SEP, ".", SEP>> \o f
                        /\ NamesPlacedPath(SubSeq(arg, 1, cut),
                                           config.remotes[args.source])

\* a push from two directories below the project root, with no file list, has
\* synced to a local and to an ssh remote
C1_Witness ==
    /\ InMode({"push"}) /\ pc = "done" /\ config.files = <<>>
    /\ env.cwd.parts = root.path.parts \o << <<"s">>, <<"s">> >>
    /\ Len(SyncLog) = 2
    /\ Last(SyncLog[1].argv) = <<"/", "b", "/", "s", "/", "s", "/">>
    /\ Last(SyncLog[2].argv) = <<"h", ":", "/", "r", "/", "s", "/", "s", "/">>

\* C2: in a push or pull no subprocess is started unless the no-confirm flag is
\* set or the operator was asked first and answered y, Y or nothing; after any
\* other answer no subprocess is started at all.
C2_ConfirmedFirst ==
    InMode({"push", "pull"}) =>
       /\ (log # <<>>) =>
             \/ args.no_confirm
             \/ (prompts # <<>> /\ prompts[1] \in AffirmativeAnswers)
       /\ (prompts # <<>> /\ prompts[1] \notin AffirmativeAnswers) => log = <<>>
       /\ args.no_confirm => prompts = <<>>

\* the operator answered Y to the prompt of a push, and the transfer tool ran
C2_Witness ==
    /\ InMode({"push"}) /\ ~args.no_confirm
    /\ prompts = <<"Y">>
    /\ SyncLog # <<>>

\* C3: with the dry-run flag set every subprocess of a push or pull is the
\* transfer tool carrying --dry-run: nothing else that changes the destination,
\* the directory creation of --mkdir included, is run.
C3_DryRunMutatesNothing ==
    (InMode({"push", "pull"}) /\ args.dry_run) =>
       \A i \in 1..Len(log) :
          IsSync(log[i]) /\ HasArg(log[i].argv, <<"--dry-run">>)

\* C4: when no configuration file lies in the current directory or above it (or
\* none is found there), or a requested push target or pull source is no
\* configured remote, the run ends without any subprocess, also for the known
\* targets listed before the unknown.
C4_ConfigErrorBeforeTransfer ==
    (/\ MainRunning
     /\ \/ ConfigAbove = {}
        \/ ~root.found
        \/ (args.mode = "push"
            /\ \E i \in 1..Len(args.target) : args.target[i] \notin ConfiguredRemotes)
        \/ (args.mode = "pull" /\ args.source # ""
            /\ args.source \notin ConfiguredRemotes))
    => (pc = "done" /\ log = <<>>)

\* a push whose first target is configured and whose second is not has ended
C4_Witness ==
    /\ InMode({"push"}) /\ pc = "done" /\ root.found
    /\ args.no_confirm
    /\ Len(args.target) = 2
    /\ args.target[1] \in ConfiguredRemotes
    /\ args.target[2] \notin ConfiguredRemotes
    /\ exitCode = 1

\* a push that was let through: every target is configured and the operator,
\* if asked, agreed
PushLetThrough ==
    /\ InMode({"push"}) /\ root.found /\ args.target # <<>>
    /\ \A i \in 1..Len(args.target) : args.target[i] \in ConfiguredRemotes
    /\ args.no_confirm \/ (prompts # <<>> /\ prompts[1] \in AffirmativeAnswers)

\* C5: in a push to several targets an error that affects one target (its remote
\* path cannot be computed, or its sync command fails) does not keep the sync
\* command from being issued for each later target: once the push has ended,
\* every target whose remote path can be computed has its sync command in the log.
C5_LaterTargetsStillSynced ==
    (PushLetThrough /\ pc = "done") =>
       \A j \in 1..Len(PushList) :
          (config.remotes[PushList[j]] # NoneValue) =>
             \E i \in 1..Len(SyncLog) :
                Last(SyncLog[i].argv)
                   = RemotePath(config.remotes[PushList[j]], env.cwd, root.path)

\* a subprocess that creates a directory for push
IsMkdir(entry) ==
    entry.argv[1] = <<"mkdir">>
    \/ (entry.argv[1] = <<"ssh">> /\ Len(entry.argv) > 2 /\ entry.argv[3] = <<"mkdir">>)

\* C6: when the transfer tool run by push or pull, or the command run by cmd,
\* exits with a code other than 0, the process ends with that same exit code.
C6_ExitCodePropagated ==
    (InMode({"push", "pull", "cmd"}) /\ pc = "done") =>
       \A i \in 1..Len(log) :
          (~IsMkdir(log[i]) /\ log[i].rc # 0) => exitCode = log[i].rc

\* main's diff has compared the two trees
DiffRan == InMode({"diff"}) /\ pc = "done" /\ "local" \in DOMAIN env

\* C7: diff, with or without --copy, ends with exit code 1 after printing the
\* classified differences when the local and the remote tree differ, and with
\* exit code 0 after the confirmation message when they do not.
C7_DiffExitCode ==
    DiffRan =>
       IF env.local # env.remote
       THEN /\ exitCode = 1
            /\ out # <<>>
            /\ \A i \in 1..Len(out) : out[i].kind \in {"ADDED", "REMOVED", "CHANGED"}
       ELSE /\ exitCode = 0
            /\ out = <<Message("Clean!", {})>>

\* C8: findup(name, S) returns the nearest directory among S and its ancestors,
\* the root directory included, that holds a regular file called name, and None
\* exactly when there is none.
C8_FindupNearestAncestor ==
    fu.called =>
       LET holding == {n \in 0..Len(fu.start.parts) :
                          SubSeq(fu.start.parts, 1, n) \o <<fu.name>> \in fu.fs.regular}
       IN  IF holding = {}
           THEN ~fu.result.found
           ELSE /\ fu.result.found
                /\ fu.result.path.parts
                     = SubSeq(fu.start.parts, 1,
                              CHOOSE n \in holding : \A m \in holding : m <= n)

Unchanged(old, new) == {k \in DOMAIN old \cap DOMAIN new : old[k] = new[k]}

\* what the claim and its amendment share: the three sets are pairwise disjoint,
\* added = keys(new) - keys(old), removed = keys(old) - keys(new), and changed
\* holds the keys of both whose hashes differ
PartsOfDiff ==
    /\ sd.added \cap sd.removed = {}
    /\ sd.added \cap sd.changed = {}
    /\ sd.removed \cap sd.changed = {}
    /\ sd.added = DOMAIN sd.state2 \ DOMAIN sd.state1
    /\ sd.removed = DOMAIN sd.state1 \ DOMAIN sd.state2
    /\ sd.changed = {k \in DOMAIN sd.state1 \cap DOMAIN sd.state2 :
                       sd.state1[k] # sd.state2[k]}

\* C9, as claimed: the added, removed and changed sets are pairwise disjoint and
\* their union is keys(old) \cup keys(new).
C9_UnionIsAllKeys ==
    sd.called =>
       /\ PartsOfDiff
       /\ sd.added \cup sd.removed \cup sd.changed
            = DOMAIN sd.state1 \cup DOMAIN sd.state2

\* C9, amended: the added, removed and changed sets are pairwise disjoint and
\* their union is keys(old) \cup keys(new) without the keys that both maps hold
\* with the same hash.
C9_UnionIsAllButUnchanged ==
    sd.called =>
       /\ PartsOfDiff
       /\ sd.added \cup sd.removed \cup sd.changed
            = (DOMAIN sd.state1 \cup DOMAIN sd.state2)
                 \ Unchanged(sd.state1, sd.state2)

\* show_diff was handed two maps with an added, a changed and an unchanged key
C9_Witness ==
    /\ pc = "show_diff_done"
    /\ sd.added # {}
    /\ sd.changed # {}
    /\ Unchanged(sd.state1, sd.state2) # {}

\* a dict supplies a non-empty, explicitly set value for the key
Supplies(choices, key) == key \in DOMAIN choices /\ choices[key] = "set"

\* C10: after Config.update with the file's dict and then with the command
\* line's, each field holds the command line's value if that is non-empty or
\* set, else the file's value, else the default; a list of the command line
\* replaces the file's list; keys that are no Config fields are ignored.
C10_MergeFieldByField ==
    /\ mg.called =>
          /\ DOMAIN mg.result = ConfigFields
          /\ \A key \in ConfigFields :
                mg.result[key] =
                   IF Supplies(mg.cliChoices, key) THEN DictValue(key, "c", "set")
                   ELSE IF Supplies(mg.fileChoices, key) THEN DictValue(key, "f", "set")
                   ELSE NewConfig[key]
    /\ MainRunning =>
          /\ DOMAIN config = ConfigFields
          /\ config.mode = args.mode
          /\ config.files = args.files
          /\ \A key \in {"excludes", "includes"} :
                config[key] = IF args[key] # <<>> THEN args[key]
                              ELSE IF key \in DOMAIN env.file THEN env.file[key]
                              ELSE <<>>
          /\ \A key \in BoolFields : config[key] = args[key]
          /\ config.remotes = IF "remotes" \in DOMAIN env.file
                              THEN env.file.remotes ELSE <<>>

\* the file and the command line both set the list of excludes
C10_Witness ==
    /\ pc = "merge_done"
    /\ Supplies(mg.fileChoices, "excludes")
    /\ Supplies(mg.cliChoices, "excludes")
    /\ mg.result.excludes = << <<"c1">> >>

\* the patterns of the arguments of argv that start with the given option
PatternsOf(argv, option) ==
    LET picked == SelectSeq(argv, LAMBDA arg : arg # <<>> /\ arg[1] = option)
    IN  [i \in 1..Len(picked) |-> Tail(picked[i])]

IsPattern(arg) == arg # <<>> /\ arg[1] \in {"--include=", "--exclude="}

\* C11: in every argument list the transfer tool gets from push or pull, the
\* --include= arguments are the configured includes in their order, the
\* --exclude= arguments are the configured excludes in their order, and every
\* --include= stands before every --exclude=; with the no-excludes flag set the
\* list holds none of either.
C11_IncludesBeforeExcludes ==
    InMode({"push", "pull"}) =>
       \A n \in 1..Len(SyncLog) :
          LET argv == SyncLog[n].argv
          IN  IF args.no_excludes
              THEN \A i \in 1..Len(argv) : ~IsPattern(argv[i])
              ELSE /\ PatternsOf(argv, "--include=") = config.includes
                   /\ PatternsOf(argv, "--exclude=") = config.excludes
                   /\ \A i, j \in 1..Len(argv) :
                         (argv[i][1] = "--include=" /\ argv[j][1] = "--exclude=")
                            => i < j

\* a push ran the transfer tool with two configured includes and two excludes
C11_Witness ==
    /\ InMode({"push"}) /\ ~args.no_excludes
    /\ Len(config.includes) = 2 /\ Len(config.excludes) = 2
    /\ SyncLog # <<>>
    /\ PatternsOf(SyncLog[1].argv, "--include=") = << <<"i1">>, <<"i2">> >>

\* the list of ignored directory names in force: .git alone when the caller
\* supplied none, the supplied list otherwise
IgnoredDirNames(arg) ==
    IF arg.none THEN {GIT} ELSE {arg.list[i] : i \in 1..Len(arg.list)}

IgnoredFileNames(arg) == {arg.list[i] : i \in 1..Len(arg.list)}

\* C12: find_files returns exactly the regular files under the root that have
\* no directory between the root and the file whose name is an ignored
\* directory name, and whose base name is no ignored file name; names that only
\* contain an ignored name, and the names of the directories above the root, do
\* not exclude a file; the ignored directory names are .git alone when the
\* caller supplies none and the supplied list otherwise.
C12_FindFilesExact ==
    ff.called =>
       ff.result =
          {PathJoin(PathOf(ff.target_dir), [abs |-> FALSE, parts |-> r]) :
             r \in {q \in DOMAIN ff.tree :
                      /\ \A i \in 1..(Len(q) - 1) :
                            q[i] \notin IgnoredDirNames(ff.ignore_dirs)
                      /\ q[Len(q)] \notin IgnoredFileNames(ff.ignore_files)}}

C14_ScratchUniqueAndRemoved ==
    (pc \in {"done", "show_diff_done"}) =>
       /\ \A i \in 1..Len(scratch) : ~scratch[i].existed /\ scratch[i].removed
       /\ \A i, j \in 1..Len(scratch) :
             (scratch[i].name = scratch[j].name) => i = j

\* every listed target is a configured remote whose location is a string
TargetsResolve(targets) ==
    \A i \in 1..Len(targets) :
       /\ targets[i] \in DOMAIN config.remotes
       /\ config.remotes[targets[i]] # NoneValue

\* the resolved path of a target: its location joined with what leads from the
\* project root to the current directory
ResolvedPath(target) == RemotePath(config.remotes[target], env.cwd, root.path)

\* C15: cmd with the targets t1 ... tn runs the command once for every listed
\* target, in the listed order: through ssh, in the corresponding directory,
\* when the target's resolved path holds a colon, and locally otherwise.
C15_CmdEveryTarget ==
    (/\ InMode({"cmd"}) /\ pc = "done" /\ root.found
     /\ ~args.target_none /\ TargetsResolve(args.target)) =>
       /\ Len(log) = Len(args.target)
       /\ \A i \in 1..Len(log) :
             IF Contains(ResolvedPath(args.target[i]), ":")
             THEN /\ log[i].argv[1] = <<"ssh">>
                  /\ log[i].argv[2] = Split(ResolvedPath(args.target[i]), ":")[1]
             ELSE log[i].argv = args.command

\* C16: in a push with mkdir enabled, the directory of a remote host:path or
\* user@host:path is created through ssh on that host, the part of the location
\* before the colon, as the plain path path/relative(cwd, root); the directory of
\* a remote that is a local path is created locally as that path.
C16_MkdirOnHost ==
    (InMode({"push"}) /\ config.mkdir) =>
       \A i \in 1..Len(log) :
          IsMkdir(log[i]) =>
             LET remotestr == config.remotes[PushList[(i + 1) \div 2]]
                 pieces == Split(remotestr, ":")
                 plain == PathJoin(PathOf(pieces[Len(pieces)]),
                                   RelOf(env.cwd, root.path))
                 argv == log[i].argv
             IN  /\ PathOf(argv[Len(argv)]) = plain
                 /\ ~Contains(argv[Len(argv)], ":")
                 /\ IF Contains(remotestr, ":")
                    THEN /\ argv[1] = <<"ssh">>
                         /\ argv[2] = pieces[1]
                         /\ SubSeq(argv, 3, 4) = << <<"mkdir">>, <<"-p">> >>
                    ELSE SubSeq(argv, 1, 2) = << <<"mkdir">>, <<"-p">> >>

\* C17: diff --copy reports a path as REMOVED only if the local tree holds it
\* and the remote tree does not, and as ADDED only if the remote tree holds it
\* and the local tree does not; a file with the same bytes in both trees is
\* reported as neither ADDED, REMOVED nor CHANGED.
C17_CopyReportsTrueDifferences ==
    (DiffRan /\ args.copy /\ sd.called) =>
       /\ sd.removed \subseteq DOMAIN env.local \ DOMAIN env.remote
       /\ sd.added \subseteq DOMAIN env.remote \ DOMAIN env.local
       /\ Unchanged(env.local, env.remote)
             \cap (sd.added \cup sd.removed \cup sd.changed) = {}

\* the plain path of a target's directory: its location without the host
\* prefix, joined with what leads from the project root to the current directory
PlainPath(target) ==
    LET pieces == Split(config.remotes[target], ":")
    IN  PathJoin(PathOf(pieces[Len(pieces)]), RelOf(env.cwd, root.path))

\* C18: a confirmed push to the configured remotes t1 ... tn starts its
\* subprocesses one after the other in the listed order: exactly one sync
\* command for each listed target, and with mkdir enabled each target's
\* directory creation directly before that target's sync command.
C18_SequentialInListedOrder ==
    (PushLetThrough /\ pc = "done" /\ TargetsResolve(args.target)) =>
       LET n == Len(args.target)
       IN  /\ Len(SyncLog) = n
           /\ \A i \in 1..Len(SyncLog) :
                 i <= n => Last(SyncLog[i].argv) = ResolvedPath(args.target[i])
           /\ IF config.mkdir
              THEN /\ Len(log) = 2 * n
                   /\ \A i \in 1..Len(log) :
                         IF i % 2 = 1
                         THEN /\ IsMkdir(log[i])
                              /\ (i + 1) \div 2 <= n
                                    => PathOf(Last(log[i].argv))
                                         = PlainPath(args.target[(i + 1) \div 2])
                         ELSE IsSync(log[i])
              ELSE log = SyncLog

Next ==
    \/ FindFilesCall
    \/ GetFileHashesCall
    \/ FindupCall
    \/ MergeCall
    \/ ShowDiffCall
    \/ MainStart
    \/ Confirm
    \/ PushTarget
    \/ Pull
    \/ Diff
    \/ Edit
    \/ CmdTarget

Spec == Init /\ [][Next]_vars

====
